---- MODULE Spec2Model ----
(***************************************************************************)
(* Model of function_app.py: the HTTP handler issue_sas (POST /upload/sas) *)
(* that validates {sid, label, filename}, derives a blob name, computes a  *)
(* validity window from two clock reads, obtains a user delegation key and *)
(* signs a one-blob SAS.                                                   *)
(*                                                                         *)
(* Strings are sequences of one-character strings.  Time is counted in     *)
(* ticks; one minute is TicksPerMinute ticks.  A client sends the same     *)
(* request body again and again to one process (one environment).          *)
(***************************************************************************)
EXTENDS Integers, Sequences, FiniteSets, TLC

\* ------------------------------------------------------------------ bounds
MaxNameLen == 3          \* longest raw filename the client sends
MaxClock == 2            \* last tick the wall clock reaches
TicksPerMinute == 2      \* resolution of the clock

\* -------------------------------------------------------------- characters
\* "a" stands for any letter or digit of a caller string, "\n" for any
\* whitespace character, "/" for any character outside the allow-list.
Alphabet == {"a", ".", "/", "\n"}
Whitespace == {"\n"}
Letters == {"a", "d", "f", "p"}
Digits == {"0", "1"}

Str(n) == UNION {[1..k -> Alphabet] : k \in 0..n}

\* A JSON member / environment entry: absent, a string, or a non-string value.
Missing == [tag |-> "missing", val |-> <<>>]
NonString == [tag |-> "nonstr", val |-> <<>>]
S(s) == [tag |-> "str", val |-> s]

\* ------------------------------------------------------- pure functions
\* SAFE_RE's character class [a-zA-Z0-9_\-\.]
SafeChar(c) == c \in Letters \cup Digits \cup {"_", "-", "."}

\* SAFE_RE.match(s): ^[...]+$ without re.MULTILINE; "$" also matches just
\* before a newline that ends the string.
SAFE_RE_match(s) ==
    LET core == IF Len(s) > 0 /\ s[Len(s)] = "\n" THEN SubSeq(s, 1, Len(s) - 1) ELSE s
    IN  Len(core) > 0 /\ \A i \in 1..Len(core) : SafeChar(core[i])

\* _safe(s, field) returns s; it raises ValueError when this is FALSE.
safe_ok(s) == ~(s = <<>>) /\ SAFE_RE_match(s)

\* str.strip(): drops leading and trailing whitespace.
RECURSIVE lstrip(_)
lstrip(s) == IF Len(s) > 0 /\ Head(s) \in Whitespace THEN lstrip(Tail(s)) ELSE s

RECURSIVE rstrip(_)
rstrip(s) ==
    IF Len(s) > 0 /\ s[Len(s)] \in Whitespace THEN rstrip(SubSeq(s, 1, Len(s) - 1)) ELSE s

strip_id(s) == s
strip(s) == rstrip(lstrip(s))

\* str.rfind(c), 1-based; 0 when c does not occur.
rfind(p, c) ==
    LET hits == {i \in 1..Len(p) : p[i] = c}
    IN  IF hits = {} THEN 0 ELSE CHOOSE i \in hits : \A j \in hits : j <= i

\* A splitext that takes everything from the last dot on, leading dots too.
splitext_lastdot(p) ==
    LET dotIndex == rfind(p, ".")
    IN  IF dotIndex > 0 THEN SubSeq(p, dotIndex, Len(p)) ELSE <<>>

\* os.path.splitext(p)[1] (posixpath: sep "/", extsep "."): the extension
\* starts at the last dot after the last "/", unless only dots precede it.
splitext(p) ==
    LET sepIndex == rfind(p, "/")
        dotIndex == rfind(p, ".")
    IN  IF dotIndex > sepIndex /\ \E i \in (sepIndex + 1)..(dotIndex - 1) : p[i] # "."
        THEN SubSeq(p, dotIndex, Len(p))
        ELSE <<>>

default_ext == <<".", "p", "d", "f">>

\* ext = ext if ext else ".pdf"; blob_name = f"{sid}_{label}{ext}"
blob_name_of(sid, label, filename) ==
    LET ext == splitext(filename)
    IN  sid \o <<"_">> \o label \o (IF ext # <<>> THEN ext ELSE default_ext)

\* int(s): optional surrounding whitespace, optional sign, decimal digits.
DigitVal(c) == IF c = "1" THEN 1 ELSE 0

int_body(s) ==
    LET t == strip(s)
    IN  IF Len(t) > 0 /\ Head(t) \in {"-", "+"} THEN Tail(t) ELSE t

int_ok(s) == Len(int_body(s)) > 0 /\ \A i \in 1..Len(int_body(s)) : int_body(s)[i] \in Digits

RECURSIVE int_abs(_)
int_abs(d) == IF d = <<>> THEN 0 ELSE 10 * int_abs(SubSeq(d, 1, Len(d) - 1)) + DigitVal(d[Len(d)])

int_of(s) ==
    LET t == strip(s)
    IN  IF Len(t) > 0 /\ Head(t) = "-" THEN 0 - int_abs(int_body(s)) ELSE int_abs(int_body(s))

\* ------------------------------------------------------------ input sets
\* Values of the "sid" and "label" members of the JSON body.
SidValues == {Missing, NonString, S(<<>>), S(<<"a">>), S(<<"a", "/">>), S(<<"\n", "a", "\n">>)}
LabelValues == {Missing, NonString, S(<<"a">>), S(<<".">>), S(<<"/">>)}
FilenameValues == {Missing, NonString} \cup {S(s) : s \in Str(MaxNameLen)}

\* What req.get_json() finds: no JSON at all, JSON that is no object (a list,
\* a number, null), or an object with the three members.
Body(kind, sid, label, filename) ==
    [kind |-> kind, sid |-> sid, label |-> label, filename |-> filename]

Bodies ==
    {Body("invalid_json", Missing, Missing, Missing), Body("non_object", Missing, Missing, Missing)}
    \cup {Body("object", s, l, f) : s \in SidValues, l \in LabelValues, f \in FilenameValues}

\* os.environ: STORAGE_ACCOUNT_NAME, UPLOADS_CONTAINER, SAS_TTL_MINUTES.
Environ(account, container, ttl) ==
    [STORAGE_ACCOUNT_NAME |-> account, UPLOADS_CONTAINER |-> container, SAS_TTL_MINUTES |-> ttl]

Environs ==
    { Environ(S(<<"a">>), Missing, Missing),
      Environ(S(<<"a">>), S(<<"c">>), S(<<"1">>)),
      Environ(S(<<"a">>), Missing, S(<<"0">>)),
      Environ(S(<<"a">>), Missing, S(<<"-", "1">>)),
      Environ(S(<<"a">>), Missing, S(<<"a">>)),
      Environ(Missing, Missing, Missing),
      Environ(Missing, Missing, S(<<"a">>)) }

\* Exception types the identity/signing backend can raise.
BackendErrors == {"ServiceRequestError", "ValueError"}

\* ----------------------------------------------------- exceptions, replies
NoExc == [type |-> "", msg |-> <<>>]
Exc(type, msg) == [type |-> type, msg |-> msg]

\* isinstance(e, ValueError)
IsValueError(e) == e.type = "ValueError"

NoKey == [start |-> 0, expiry |-> 0, valid |-> FALSE]
NoSas ==
    [account_name |-> <<>>, container_name |-> <<>>, blob_name |-> <<>>,
     permission |-> {}, start |-> 0, expiry |-> 0, user_delegation_key |-> NoKey]
NoUrl == [account |-> <<>>, container |-> <<>>, blob_name |-> <<>>, sas |-> NoSas]

NoResponse ==
    [status_code |-> 0, mimetype |-> "", text |-> <<>>, keys |-> {}, error |-> "",
     detail |-> <<>>, uploadUrl |-> NoUrl, blobName |-> <<>>, expiresInMinutes |-> 0]

\* return func.HttpResponse(json.dumps({...}), status_code=200, ...)
Response200(url, blob, ttl) ==
    [NoResponse EXCEPT !.status_code = 200, !.mimetype = "application/json",
                       !.keys = {"uploadUrl", "blobName", "expiresInMinutes"},
                       !.uploadUrl = url, !.blobName = blob, !.expiresInMinutes = ttl]

\* except ValueError as ve: ... / except Exception as e: ...
except_clauses(e) ==
    IF IsValueError(e)
    THEN [NoResponse EXCEPT !.status_code = 400, !.mimetype = "text/plain", !.text = e.msg]
    ELSE [NoResponse EXCEPT !.status_code = 500, !.mimetype = "application/json",
                            !.keys = {"error", "detail"}, !.error = e.type, !.detail = e.msg]

\* --------------------------------------------- lines 57-95 of the try body
\* dict.get(key, "")
get_or_empty(member) == IF member.tag = "missing" THEN S(<<>>) ELSE member

\* os.environ.get(key, default)
environ_get(entry, default) == IF entry.tag = "missing" THEN default ELSE entry.val

NoLocals ==
    [exc |-> NoExc, account_name |-> <<>>, container |-> <<>>, ttl_min |-> 0,
     blob_name |-> <<>>]

Raise(type, msg) == [NoLocals EXCEPT !.exc = Exc(type, msg)]

\* The statements before the first clock read, in program order; the first
\* one that raises ends the try body.
try_prefix(body, environ) ==
    IF body.kind = "invalid_json"
    THEN Raise("ValueError", <<"HTTP request does not contain valid JSON data">>)
    ELSE IF body.kind # "object"
    THEN Raise("AttributeError", <<"object has no attribute", "get">>)
    ELSE
    LET sid_v == get_or_empty(body.sid)
        label_v == get_or_empty(body.label)
        filename_v == get_or_empty(body.filename)
        ttl_s == environ_get(environ.SAS_TTL_MINUTES, <<"1", "0">>)
    IN  IF sid_v.tag # "str" THEN Raise("AttributeError", <<"object has no attribute", "strip">>)
        ELSE IF ~safe_ok(strip(sid_v.val)) THEN Raise("ValueError", <<"Invalid", "sid">>)
        ELSE IF label_v.tag # "str" THEN Raise("AttributeError", <<"object has no attribute", "strip">>)
        ELSE IF ~safe_ok(strip(label_v.val)) THEN Raise("ValueError", <<"Invalid", "label">>)
        ELSE IF filename_v.tag # "str" THEN Raise("AttributeError", <<"object has no attribute", "strip">>)
        ELSE IF ~safe_ok(strip(filename_v.val)) THEN Raise("ValueError", <<"Invalid", "filename">>)
        ELSE IF environ.STORAGE_ACCOUNT_NAME.tag = "missing"
        THEN Raise("KeyError", <<"STORAGE_ACCOUNT_NAME">>)
        ELSE IF ~int_ok(ttl_s)
        THEN Raise("ValueError", <<"invalid literal for int() with base 10">>)
        ELSE [exc |-> NoExc,
              account_name |-> environ.STORAGE_ACCOUNT_NAME.val,
              container |-> environ_get(environ.UPLOADS_CONTAINER, <<"uploads">>),
              ttl_min |-> int_of(ttl_s),
              blob_name |-> blob_name_of(strip(sid_v.val), strip(label_v.val),
                                         strip(filename_v.val))]

\* ------------------------------------------------ lines 99-125, the window
start_const(t) == 0 - TicksPerMinute
\* start = datetime.now(timezone.utc) - timedelta(minutes=1)
start_of(t) == t - TicksPerMinute

\* expiry = datetime.now(timezone.utc) + timedelta(minutes=ttl_min)
expiry_of(t, ttl) == t + ttl * TicksPerMinute

key_window_padded(s, e) == [start |-> s, expiry |-> e + TicksPerMinute, valid |-> TRUE]
\* the key get_user_delegation_key(key_start_time=start, key_expiry_time=expiry) returns
key_window(s, e) == [start |-> s, expiry |-> e, valid |-> TRUE]

permission_with_read == {"read", "write", "create", "add"}
\* BlobSasPermissions(write=True, create=True, add=True)
sas_permission == {"write", "create", "add"}

\* generate_blob_sas(...)
generate_blob_sas(account, cont, blob, key, s, e) ==
    [account_name |-> account, container_name |-> cont, blob_name |-> blob,
     permission |-> sas_permission, start |-> s, expiry |-> e, user_delegation_key |-> key]

\* f"https://{account_name}.blob.core.windows.net/{container}/{blob_name}?{sas}"
upload_url_of(account, cont, blob, sas) ==
    [account |-> account, container |-> cont, blob_name |-> blob, sas |-> sas]

\* ------------------------------------------------------------------ state
VARIABLES
    env,        \* os.environ of the process
    req,        \* the body the client posts
    now,        \* the last value the wall clock showed
    pc,         \* where issue_sas stands: "idle", "L99", "L101", "L103", "L105", "done"
    loc,        \* account_name, container, ttl_min, blob_name of the running call
    issued_at,  \* the clock value line 99 read
    start,      \* local start
    expiry,     \* local expiry
    udk,        \* local udk
    calls,      \* the backend calls of the running call, in order
    resp,       \* the HttpResponse returned
    prev        \* the grant of the latest earlier call answered 200

vars == <<env, req, now, pc, loc, issued_at, start, expiry, udk, calls, resp, prev>>

NoGrant == [issued |-> FALSE, at |-> 0, blob_name |-> <<>>, start |-> 0, expiry |-> 0]

Call(op, s, e, perm, raised) ==
    [op |-> op, start |-> s, expiry |-> e, permission |-> perm, raised |-> raised]

Init ==
    /\ env \in Environs
    /\ req \in Bodies
    /\ now = 0
    /\ pc = "idle"
    /\ loc = NoLocals
    /\ issued_at = 0
    /\ start = 0
    /\ expiry = 0
    /\ udk = NoKey
    /\ calls = <<>>
    /\ resp = NoResponse
    /\ prev = NoGrant

\* str(e) of an exception the backend raises in operation op
backend_msg(op) == <<op, "failed">>

\* lines 57-95: parse, validate, read the configuration, derive the name
Begin ==
    /\ pc = "idle"
    /\ LET r == try_prefix(req, env)
       IN  IF r.exc # NoExc
           THEN /\ resp' = except_clauses(r.exc)
                /\ pc' = "done"
                /\ loc' = loc
           ELSE /\ loc' = r
                /\ pc' = "L99"
                /\ resp' = resp
    /\ UNCHANGED <<env, req, now, issued_at, start, expiry, udk, calls, prev>>

\* line 99: the first clock read
ReadStart ==
    /\ pc = "L99"
    /\ \E t \in now..MaxClock :
          /\ now' = t
          /\ issued_at' = t
          /\ start' = start_of(t)
    /\ pc' = "L101"
    /\ UNCHANGED <<env, req, loc, expiry, udk, calls, resp, prev>>

\* line 101: the second clock read
ReadExpiry ==
    /\ pc = "L101"
    /\ \E t \in now..MaxClock :
          /\ now' = t
          /\ expiry' = expiry_of(t, loc.ttl_min)
    /\ pc' = "L103"
    /\ UNCHANGED <<env, req, loc, issued_at, start, udk, calls, resp, prev>>

\* line 103: svc.get_user_delegation_key returns a key
GetKey ==
    /\ pc = "L103"
    /\ udk' = key_window(start, expiry)
    /\ calls' = Append(calls, Call("get_user_delegation_key", udk'.start, udk'.expiry, {}, ""))
    /\ pc' = "L105"
    /\ UNCHANGED <<env, req, now, loc, issued_at, start, expiry, resp, prev>>

\* line 103: svc.get_user_delegation_key raises
GetKeyRaises ==
    /\ pc = "L103"
    /\ \E k \in BackendErrors :
          /\ calls' = Append(calls, Call("get_user_delegation_key", start, expiry, {}, k))
          /\ resp' = except_clauses(Exc(k, backend_msg("get_user_delegation_key")))
    /\ pc' = "done"
    /\ UNCHANGED <<env, req, now, loc, issued_at, start, expiry, udk, prev>>

\* lines 105-143: sign, build the URL, answer 200
Sign ==
    /\ pc = "L105"
    /\ LET sas == generate_blob_sas(loc.account_name, loc.container, loc.blob_name,
                                    udk, start, expiry)
       IN  /\ calls' = Append(calls, Call("generate_blob_sas", sas.start, sas.expiry,
                                          sas.permission, ""))
           /\ resp' = Response200(upload_url_of(loc.account_name, loc.container,
                                                loc.blob_name, sas),
                                  loc.blob_name, loc.ttl_min)
    /\ pc' = "done"
    /\ UNCHANGED <<env, req, now, loc, issued_at, start, expiry, udk, prev>>

\* line 105: generate_blob_sas raises
SignRaises ==
    /\ pc = "L105"
    /\ \E k \in BackendErrors :
          /\ calls' = Append(calls, Call("generate_blob_sas", start, expiry,
                                         sas_permission, k))
          /\ resp' = except_clauses(Exc(k, backend_msg("generate_blob_sas")))
    /\ pc' = "done"
    /\ UNCHANGED <<env, req, now, loc, issued_at, start, expiry, udk, prev>>

\* The response leaves; the next call of the handler starts with fresh locals.
Return ==
    /\ pc = "done"
    /\ prev' = IF resp.status_code = 200
               THEN [issued |-> TRUE, at |-> issued_at, blob_name |-> resp.blobName,
                     start |-> resp.uploadUrl.sas.start, expiry |-> resp.uploadUrl.sas.expiry]
               ELSE prev
    /\ pc' = "idle"
    /\ loc' = NoLocals
    /\ issued_at' = 0
    /\ start' = 0
    /\ expiry' = 0
    /\ udk' = NoKey
    /\ calls' = <<>>
    /\ resp' = NoResponse
    /\ UNCHANGED <<env, req, now>>

Next ==
    \/ Begin
    \/ ReadStart
    \/ ReadExpiry
    \/ GetKey
    \/ GetKeyRaises
    \/ Sign
    \/ SignRaises
    \/ Return

Spec == Init /\ [][Next]_vars

\* ================================================================ claims
\* Vocabulary of the claims, stated on the request and the response.
Answered == pc = "done"
Answered200 == pc = "done" /\ resp.status_code = 200

\* a member that is missing, empty after trimming, or has a character
\* outside [A-Za-z0-9_.-] after trimming
BadMember(m) ==
    \/ m.tag = "missing"
    \/ /\ m.tag = "str"
       /\ LET t == strip(m.val)
          IN  t = <<>> \/ \E i \in 1..Len(t) : ~SafeChar(t[i])

FirstBadField(b) ==
    IF BadMember(b.sid) THEN "sid" ELSE IF BadMember(b.label) THEN "label" ELSE "filename"

GoodMember(m) == m.tag = "str" /\ ~BadMember(m)

FieldsValid(b) ==
    b.kind = "object" /\ GoodMember(b.sid) /\ GoodMember(b.label) /\ GoodMember(b.filename)

ValidationTexts == {<<"Invalid", f>> : f \in {"sid", "label", "filename"}}

KeyCalls == {i \in 1..Len(calls) : calls[i].op = "get_user_delegation_key"}
RaisedCalls == {i \in 1..Len(calls) : calls[i].raised # ""}

NameOk(n) == Len(n) > 0 /\ \A i \in 1..Len(n) : SafeChar(n[i])

\* two windows share an instant
Overlap(s1, e1, s2, e2) == s2 <= e1 /\ s1 <= e2

\* C1: a request with a missing, empty or ill-formed sid, label or filename is
\* answered 400 with the text naming the first such field in the order sid,
\* label, filename, and no backend call is made, whatever the configuration.
C1_BadFieldIs400 ==
    (Answered /\ req.kind = "object"
        /\ (BadMember(req.sid) \/ BadMember(req.label) \/ BadMember(req.filename)))
    => /\ resp.status_code = 400
       /\ resp.text = <<"Invalid", FirstBadField(req)>>
       /\ calls = <<>>

\* the extension as C2 states it: from the last '.' on, ".pdf" without a '.'
ExtFromLastDot(f) ==
    LET dots == {i \in 1..Len(f) : f[i] = "."}
    IN  IF dots = {} THEN default_ext
        ELSE SubSeq(f, CHOOSE i \in dots : \A j \in dots : j <= i, Len(f))

\* the extension as amended: from the last '.' on when a character other than
\* '.' precedes that dot, ".pdf" otherwise
ExtAfterStem(f) ==
    LET dots == {i \in 1..Len(f) : f[i] = "."}
        last == CHOOSE i \in dots : \A j \in dots : j <= i
    IN  IF dots # {} /\ \E i \in 1..(last - 1) : f[i] # "."
        THEN SubSeq(f, last, Len(f))
        ELSE default_ext

\* C2 as stated: blobName = sid + "_" + label + ext, ext from the last '.' of
\* filename on whenever filename has a '.', leading dots included.
C2_NameFromLastDot ==
    Answered200 =>
        resp.blobName = strip(req.sid.val) \o <<"_">> \o strip(req.label.val)
                            \o ExtFromLastDot(strip(req.filename.val))

\* C2 amended: blobName = sid + "_" + label + ext, ext from the last '.' of
\* filename on when some character other than '.' precedes that dot, and
\* ".pdf" when filename has no '.' or only dots before its last '.'.
C2_NameFromExtension ==
    Answered200 =>
        resp.blobName = strip(req.sid.val) \o <<"_">> \o strip(req.label.val)
                            \o ExtAfterStem(strip(req.filename.val))

C2_Witness == Answered200 /\ strip(req.filename.val) = <<".", ".", "a">>

\* C3: every grant that is signed carries exactly {create, write, add}.
C3_PermissionScope ==
    /\ \A i \in 1..Len(calls) :
          calls[i].op = "generate_blob_sas" => calls[i].permission = {"create", "write", "add"}
    /\ Answered200 => resp.uploadUrl.sas.permission = {"create", "write", "add"}

C3_Witness == Answered200 /\ Len(calls) = 2 /\ calls[2].op = "generate_blob_sas"

\* C4: a signed grant has start < expiry and expiry - start = TTL + 1 minute
\* exactly, however the clock advances during the request.
C4_WindowLength ==
    Answered200 =>
        /\ resp.uploadUrl.sas.start < resp.uploadUrl.sas.expiry
        /\ resp.uploadUrl.sas.expiry - resp.uploadUrl.sas.start
              = (resp.expiresInMinutes + 1) * TicksPerMinute

\* SAS_TTL_MINUTES is set and is no positive integer
TtlMisconfigured ==
    /\ env.SAS_TTL_MINUTES.tag = "str"
    /\ ~int_ok(env.SAS_TTL_MINUTES.val) \/ int_of(env.SAS_TTL_MINUTES.val) <= 0

\* C5: with a non-numeric or non-positive TTL, a request with valid fields is
\* answered 500, never 200 and never 400.
C5_BadTtlIs500 ==
    (Answered /\ FieldsValid(req) /\ TtlMisconfigured) => resp.status_code = 500

\* C6: a backend call that raises is answered 500 with the JSON body
\* {error: type name, detail: message}, without uploadUrl, and is not retried.
C6_BackendFailureIs500 ==
    (Answered /\ RaisedCalls # {}) =>
        LET c == calls[Len(calls)]
        IN  /\ resp.status_code = 500
            /\ resp.mimetype = "application/json"
            /\ resp.keys = {"error", "detail"}
            /\ resp.error = c.raised
            /\ resp.detail = backend_msg(c.op)
            /\ Cardinality(RaisedCalls) = 1
            /\ Cardinality(KeyCalls) <= 1

\* C7: every 400 carries the validation text of one of the three fields; an
\* unparseable body, a configuration problem or a backend failure is never 400.
C7_Only400IsValidation ==
    (Answered /\ resp.status_code = 400) =>
        /\ resp.mimetype = "text/plain"
        /\ resp.text \in ValidationTexts
        /\ req.kind = "object"
        /\ calls = <<>>

\* C8 as stated: the same body and configuration issued at T1 < T2 get the same
\* blob name and two different windows that do not overlap.
C8_WindowsDisjoint ==
    (Answered200 /\ prev.issued /\ prev.at < issued_at) =>
        /\ resp.blobName = prev.blob_name
        /\ <<resp.uploadUrl.sas.start, resp.uploadUrl.sas.expiry>> # <<prev.start, prev.expiry>>
        /\ ~Overlap(prev.start, prev.expiry,
                    resp.uploadUrl.sas.start, resp.uploadUrl.sas.expiry)

\* C8 amended: the same body and configuration issued at T1 < T2 get the same
\* blob name and two different windows (which may overlap).
C8_SameNameOtherWindow ==
    (Answered200 /\ prev.issued /\ prev.at < issued_at) =>
        /\ resp.blobName = prev.blob_name
        /\ <<resp.uploadUrl.sas.start, resp.uploadUrl.sas.expiry>> # <<prev.start, prev.expiry>>

C8_Witness ==
    /\ Answered200 /\ prev.issued /\ prev.at < issued_at
    /\ Overlap(prev.start, prev.expiry, resp.uploadUrl.sas.start, resp.uploadUrl.sas.expiry)

\* C9: no request makes more than one delegation-key call; a request answered
\* 200 made exactly one, before signing, for the very window that was signed.
C9_OneKeyCallSameWindow ==
    /\ Cardinality(KeyCalls) <= 1
    /\ Answered200 =>
          /\ Len(calls) = 2
          /\ calls[1].op = "get_user_delegation_key" /\ calls[1].raised = ""
          /\ calls[2].op = "generate_blob_sas"
          /\ <<calls[1].start, calls[1].expiry>> = <<calls[2].start, calls[2].expiry>>
          /\ <<calls[1].start, calls[1].expiry>>
                = <<resp.uploadUrl.sas.start, resp.uploadUrl.sas.expiry>>

C9_Witness == Answered200 /\ KeyCalls = {1} /\ issued_at < now

\* C10: once the name is derived it is non-empty and made of [A-Za-z0-9_.-]
\* only, and the URL's path is exactly container and that name.
C10_NameSafe ==
    /\ pc \in {"L99", "L101", "L103", "L105"} => NameOk(loc.blob_name)
    /\ Answered200 =>
          /\ NameOk(resp.blobName)
          /\ resp.uploadUrl.blob_name = resp.blobName
          /\ resp.uploadUrl.container = loc.container

C10_Witness == Answered200 /\ req.filename.val = <<"a", ".", "\n">>

====
